---- MODULE Spec2Model ----
(***************************************************************************)
(* Car-listing REST API (Express + Mongoose + jsonwebtoken).               *)
(*                                                                         *)
(* The module holds three specifications over one set of variables:        *)
(*   Spec       the listing lifecycle: concurrent request handlers of      *)
(*              carController.js working on the shared cars collection;    *)
(*   SpecQuery  getCars over stores and validated queries drawn from       *)
(*              bounded sets;                                              *)
(*   SpecAuth   the auth middleware of middleware/auth.js and the token    *)
(*              functions of utils/jwt.js under a clock.                   *)
(*                                                                         *)
(* Texts (make, model, names, emails) are sequences of one-character       *)
(* strings, so that trimming, case conversion and pattern matching are     *)
(* computed.  A listing document carries the fields the handlers branch    *)
(* on: make, model, year, price, fuelType, status, isActive, viewCount,    *)
(* seller.name, seller.email, updatedAt; its _id is its position in the    *)
(* collection and creation order is id order.  updatedAt counts clock      *)
(* ticks, and two writes to the collection are at least one tick apart.   *)
(***************************************************************************)
EXTENDS Integers, Sequences, FiniteSets, TLC

VARIABLES
  cars,     \* the cars collection: sequence of documents, _id = index
  reqs,     \* the in-flight and completed HTTP requests on /api/cars
  now,      \* wall clock in seconds (Math.floor(Date.now() / 1000))
  issued,   \* token pairs handed out by generateTokens
  users,    \* the users collection: id -> document or NoUser
  areq      \* the request travelling through the auth middleware chain

vars == <<cars, reqs, now, issued, users, areq>>

-----------------------------------------------------------------------------
(* Bounds *)

MaxReqs == 2       \* requests per behaviour of Spec
MaxCars == 2       \* documents the collection may hold in Spec

-----------------------------------------------------------------------------
(* Text helpers *)

LowerLetters == <<"a", "b", "c", "d", "e", "f", "g", "h", "i", "j", "k", "l", "m",
                  "n", "o", "p", "q", "r", "s", "t", "u", "v", "w", "x", "y", "z">>
UpperLetters == <<"A", "B", "C", "D", "E", "F", "G", "H", "I", "J", "K", "L", "M",
                  "N", "O", "P", "Q", "R", "S", "T", "U", "V", "W", "X", "Y", "Z">>

\* String.prototype.toLowerCase on one character
ToLowerCh(c) ==
  IF \E i \in 1..Len(UpperLetters) : UpperLetters[i] = c
  THEN LowerLetters[CHOOSE i \in 1..Len(UpperLetters) : UpperLetters[i] = c]
  ELSE c

\* String.prototype.toUpperCase on one character
ToUpperCh(c) ==
  IF \E i \in 1..Len(LowerLetters) : LowerLetters[i] = c
  THEN UpperLetters[CHOOSE i \in 1..Len(LowerLetters) : LowerLetters[i] = c]
  ELSE c

ToLower(s) == [i \in 1..Len(s) |-> ToLowerCh(s[i])]
ToUpper(s) == [i \in 1..Len(s) |-> ToUpperCh(s[i])]

\* String.prototype.trim (the only white space in the alphabet is " ")
RECURSIVE Trim(_)
Trim(s) ==
  IF s = <<>> THEN s
  ELSE IF Head(s) = " " THEN Trim(Tail(s))
  ELSE IF s[Len(s)] = " " THEN Trim(SubSeq(s, 1, Len(s) - 1))
  ELSE s

\* the value of an absent (undefined) text property
Absent == <<"undefined">>
\* the value of an absent (undefined) numeric property
AbsentNum == -1

-----------------------------------------------------------------------------
(* Validation: Joi carValidationSchema and the Mongoose Car schema *)

PriceMax == 10000000
YearMin == 1900
CurrentYear == 2026           \* new Date().getFullYear()
MakeMaxLen == 50
SellerNameMaxLen == 100

Petrol == <<"p", "e", "t", "r", "o", "l">>
Diesel == <<"d", "i", "e", "s", "e", "l">>
FuelTypes == {Petrol, Diesel}            \* two values of the enum
Statuses == {"available", "sold", "reserved"}
AbsentStatus == "undefined"

\* \w
WordChars == {LowerLetters[i] : i \in 1..Len(LowerLetters)}
             \cup {UpperLetters[i] : i \in 1..Len(UpperLetters)}
             \cup {"0", "1", "2", "3", "4", "5", "6", "7", "8", "9", "_"}

Count(s, c) == Cardinality({i \in 1..Len(s) : s[i] = c})
IndexOf(s, c) == CHOOSE i \in 1..Len(s) : s[i] = c /\ \A j \in 1..(i - 1) : s[j] # c

\* \w+([.-]?\w+)*  : word characters with single '.' or '-' between them
WordRun(s) ==
  /\ Len(s) >= 1
  /\ s[1] \in WordChars /\ s[Len(s)] \in WordChars
  /\ \A i \in 1..Len(s) : s[i] \in WordChars \cup {".", "-"}
  /\ \A i \in 1..(Len(s) - 1) : ~(s[i] \in {".", "-"} /\ s[i + 1] \in {".", "-"})

\* (\.\w{2,3})+$
RECURSIVE DotTails(_)
DotTails(s) ==
  /\ Len(s) >= 3
  /\ s[1] = "."
  /\ \E n \in {2, 3} :
       /\ Len(s) >= n + 1
       /\ \A i \in 2..(n + 1) : s[i] \in WordChars
       /\ \/ Len(s) = n + 1
          \/ DotTails(SubSeq(s, n + 2, Len(s)))

\* the match validator of seller.email:
\* /^\w+([.-]?\w+)*@\w+([.-]?\w+)*(\.\w{2,3})+$/, skipped for null and ''
EmailMatch(e) ==
  \/ e = Absent
  \/ e = <<>>
  \/ /\ Count(e, "@") = 1
     /\ LET at == IndexOf(e, "@")
            dom == SubSeq(e, at + 1, Len(e))
        IN /\ WordRun(SubSeq(e, 1, at - 1))
           /\ \E k \in 1..Len(dom) :
                /\ WordRun(SubSeq(dom, 1, k))
                /\ DotTails(SubSeq(dom, k + 1, Len(dom)))

\* Joi.string().email(): one '@', a non-empty local part and a domain of at
\* least two non-empty segments (the library's address grammar, restricted
\* to the alphabet of the model)
JoiEmail(e) ==
  /\ Count(e, "@") = 1
  /\ Count(e, " ") = 0
  /\ LET at == IndexOf(e, "@")
         dom == SubSeq(e, at + 1, Len(e))
     IN /\ at > 1
        /\ Len(dom) >= 3
        /\ Count(dom, ".") >= 1
        /\ dom[1] # "." /\ dom[Len(dom)] # "."

\* variant: keys the schema does not know stay in the validated body
KeepUnknown(raw, converted) ==
  [k \in DOMAIN raw \cup DOMAIN converted |->
     IF k \in DOMAIN converted THEN converted[k] ELSE raw[k]]

\* stripUnknown: true -- the validated body holds the schema's keys only
StripUnknown(raw, converted) == converted

\* carValidationSchema applied with stripUnknown: ok tells whether the body
\* passes, value is the converted body (trimmed, lower-cased, defaulted, keys
\* outside the schema dropped)
JoiCar(raw) ==
  LET make  == IF raw.make = Absent THEN Absent ELSE Trim(raw.make)
      model == IF raw.model = Absent THEN Absent ELSE Trim(raw.model)
      sname == IF raw.seller.name = Absent THEN Absent ELSE Trim(raw.seller.name)
      email == IF raw.seller.email = Absent THEN Absent
               ELSE ToLower(Trim(raw.seller.email))
  IN [ok |->
        /\ make # Absent /\ Len(make) >= 1 /\ Len(make) <= MakeMaxLen
        /\ model # Absent /\ Len(model) >= 1 /\ Len(model) <= MakeMaxLen
        /\ raw.year # AbsentNum /\ raw.year >= YearMin /\ raw.year <= CurrentYear + 1
        /\ raw.price # AbsentNum /\ raw.price > 0 /\ raw.price <= PriceMax
        /\ raw.fuelType \in FuelTypes
        /\ sname # Absent /\ Len(sname) >= 1 /\ Len(sname) <= SellerNameMaxLen
        /\ (email = Absent \/ email = <<>> \/ JoiEmail(email))
        /\ raw.status \in Statuses \cup {AbsentStatus},
      value |-> StripUnknown(raw,
        [make |-> make, model |-> model, year |-> raw.year, price |-> raw.price,
         fuelType |-> raw.fuelType,
         seller |-> [name |-> sname, email |-> email],
         status |-> IF raw.status = AbsentStatus THEN "available" ELSE raw.status])]

\* the setters of the Car schema (trim, lowercase) applied when a value is
\* cast, on create and on update alike
CastCar(d) ==
  [d EXCEPT !.make = Trim(@), !.model = Trim(@), !.fuelType = ToLower(@),
            !.seller = [name |-> Trim(@.name),
                        email |-> IF @.email = Absent THEN Absent
                                  ELSE ToLower(Trim(@.email))]]

\* the validators of the Car schema on a cast value
CarValid(d) ==
  /\ Len(d.make) >= 1 /\ Len(d.make) <= MakeMaxLen
  /\ Len(d.model) >= 1 /\ Len(d.model) <= MakeMaxLen
  /\ d.year >= YearMin /\ d.year <= CurrentYear + 1
  /\ d.price >= 0 /\ d.price <= PriceMax
  /\ d.fuelType \in FuelTypes
  /\ Len(d.seller.name) >= 1 /\ Len(d.seller.name) <= SellerNameMaxLen
  /\ EmailMatch(d.seller.email)
  /\ d.status \in Statuses

\* charAt(0).toUpperCase() + slice(1).toLowerCase(), skipped for ''
Capitalize(s) ==
  IF s = <<>> THEN s
  ELSE <<ToUpperCh(s[1])>> \o ToLower(SubSeq(s, 2, Len(s)))

\* carSchema.pre('save')
PreSave(d) == [d EXCEPT !.make = Capitalize(@), !.model = Capitalize(@)]

-----------------------------------------------------------------------------
(* The cars collection and the getCars query *)

NoDoc == [id |-> 0]

\* Car.findById
FindById(id) == IF id \in 1..Len(cars) THEN cars[id] ELSE NoDoc

Ids == 1..Len(cars)

\* the time a write gets from timestamps: true: later than every updatedAt
\* in the collection
WriteTime ==
  IF cars = <<>> THEN 1
  ELSE 1 + (CHOOSE t \in {cars[i].updatedAt : i \in 1..Len(cars)} :
              \A i \in 1..Len(cars) : t >= cars[i].updatedAt)

DefaultPage == 1
DefaultLimit == 10
LimitMax == 100
TopMakesLimit == 10
Sorts == {"price", "-price", "year", "-year", "createdAt", "-createdAt"}
AbsentSort == "undefined"

\* carQuerySchema applied by validateQuery: ok and the converted query
JoiQuery(raw) ==
  [ok |->
     /\ (raw.page = AbsentNum \/ raw.page >= 1)
     /\ (raw.limit = AbsentNum \/ (raw.limit >= 1 /\ raw.limit <= LimitMax))
     /\ raw.sort \in Sorts \cup {AbsentSort}
     /\ (raw.make = Absent \/ Len(Trim(raw.make)) >= 1)
     /\ (raw.model = Absent \/ Len(Trim(raw.model)) >= 1)
     /\ (raw.minPrice = AbsentNum \/ raw.minPrice >= 0)
     /\ (raw.maxPrice = AbsentNum \/ raw.maxPrice >= 0)
     /\ (raw.minYear = AbsentNum \/ raw.minYear >= YearMin)
     /\ (raw.maxYear = AbsentNum \/ raw.maxYear <= CurrentYear + 1)
     /\ raw.fuelType \in FuelTypes \cup {Absent}
     /\ raw.status \in Statuses \cup {AbsentStatus},
   value |->
     [raw EXCEPT
        !.page = IF @ = AbsentNum THEN DefaultPage ELSE @,
        !.limit = IF @ = AbsentNum THEN DefaultLimit ELSE @,
        !.sort = IF @ = AbsentSort THEN "-createdAt" ELSE @,
        !.make = IF @ = Absent THEN @ ELSE Trim(@),
        !.model = IF @ = Absent THEN @ ELSE Trim(@),
        !.status = IF @ = AbsentStatus THEN "available" ELSE @]]

\* JavaScript truthiness of an optional number / text of the query
TruthyNum(n) == n # AbsentNum /\ n # 0
TruthyText(t) == t # Absent /\ t # <<>>

\* new RegExp(pattern, 'i').test(text) for a pattern of plain characters and
\* of '.', which stands for any character
RegExpI(pattern, text) ==
  \E i \in 1..(Len(text) + 1) :
    /\ i + Len(pattern) - 1 <= Len(text)
    /\ \A k \in 1..Len(pattern) :
         \/ pattern[k] = "."
         \/ ToLowerCh(text[i + k - 1]) = ToLowerCh(pattern[k])

\* the price entry of the filter object
PriceFilter(q, d) ==
  IF TruthyNum(q.minPrice) \/ TruthyNum(q.maxPrice)
  THEN /\ (TruthyNum(q.minPrice) => d.price >= q.minPrice)
       /\ (TruthyNum(q.maxPrice) => d.price <= q.maxPrice)
  ELSE TRUE

\* the year entry of the filter object
YearFilter(q, d) ==
  IF TruthyNum(q.minYear) \/ TruthyNum(q.maxYear)
  THEN /\ (TruthyNum(q.minYear) => d.year >= q.minYear)
       /\ (TruthyNum(q.maxYear) => d.year <= q.maxYear)
  ELSE TRUE

\* variant: the filter object without its isActive entry
CarsFilterAnyActive(q, d) ==
  /\ d.status = q.status
  /\ (TruthyText(q.make) => RegExpI(q.make, d.make))
  /\ (TruthyText(q.model) => RegExpI(q.model, d.model))
  /\ PriceFilter(q, d)
  /\ YearFilter(q, d)
  /\ (TruthyText(q.fuelType) => d.fuelType = q.fuelType)

\* the filter object built by getCars, applied to one document
CarsFilter(q, d) ==
  /\ d.isActive
  /\ d.status = q.status
  /\ (TruthyText(q.make) => RegExpI(q.make, d.make))
  /\ (TruthyText(q.model) => RegExpI(q.model, d.model))
  /\ PriceFilter(q, d)
  /\ YearFilter(q, d)
  /\ (TruthyText(q.fuelType) => d.fuelType = q.fuelType)

Matching(q) == {i \in Ids : CarsFilter(q, cars[i])}

\* a before b is allowed by .sort(sort); ties are left to the store
SortLeq(sort, a, b) ==
  CASE sort = "price" -> a.price <= b.price
    [] sort = "-price" -> a.price >= b.price
    [] sort = "year" -> a.year <= b.year
    [] sort = "-year" -> a.year >= b.year
    [] sort = "createdAt" -> a.id <= b.id
    [] sort = "-createdAt" -> a.id >= b.id

\* every order of the ids of S that .sort(sort) may produce
SortedOrders(S, sort) ==
  {s \in [1..Cardinality(S) -> S] :
     /\ \A i, j \in 1..Cardinality(S) : i # j => s[i] # s[j]
     /\ \A i, j \in 1..Cardinality(S) : i < j => SortLeq(sort, cars[s[i]], cars[s[j]])}

\* (page - 1) * limit
Skip(q) == (q.page - 1) * q.limit

\* .skip(skip).limit(limit) on an ordered result
Window(s, skip, limit) ==
  [i \in 1..(IF Len(s) - skip < 0 THEN 0
             ELSE IF Len(s) - skip < limit THEN Len(s) - skip ELSE limit)
     |-> cars[s[skip + i]]]

\* Math.ceil(total / limit)
TotalPages(total, limit) ==
  IF total % limit = 0 THEN total \div limit ELSE (total \div limit) + 1

\* variant: the last page still announces a next one
HasNextInclusive(page, totalPages) == page <= totalPages

HasNext(page, totalPages) == page < totalPages
HasPrev(page) == page > 1

-----------------------------------------------------------------------------
(* Identities and request inputs of the lifecycle specification *)

EmailAnn  == <<"a", "@", "x", ".", "i", "o">>
EmailBob  == <<"b", "@", "x", ".", "i", "o">>
EmailCat  == <<"c", "+", "d", "@", "x", ".", "i", "o">>
EmailBobMixed == <<" ", "B", "@", "X", ".", "i", "o">>

\* documents of the users collection (User model: lower-case unique email,
\* role user|admin, isActive)
Ann == [id |-> 1, username |-> <<"a", "n", "n">>, email |-> EmailAnn,
        role |-> "user", isActive |-> TRUE]
Bob == [id |-> 2, username |-> <<"b", "o", "b">>, email |-> EmailBob,
        role |-> "admin", isActive |-> TRUE]
Cat == [id |-> 3, username |-> <<"c", "a", "t">>, email |-> EmailCat,
        role |-> "user", isActive |-> TRUE]
Identities == {Ann, Bob, Cat}

\* request bodies as submitted to POST and PUT /api/cars
BodyKia ==
  [make |-> <<"k", "i", "a">>, model |-> <<"R", "I", "O">>, year |-> 2020,
   price |-> 5, fuelType |-> Petrol, status |-> AbsentStatus,
   seller |-> [name |-> <<"a", "n", "n">>, email |-> Absent]]
BodyBmw ==
  [make |-> <<" ", "B", "M", "W">>, model |-> <<"x", "5">>, year |-> 2019,
   price |-> 7, fuelType |-> Diesel, status |-> "sold",
   seller |-> [name |-> <<"b", "o", "b">>, email |-> EmailBobMixed]]
BodyNoMake == [BodyKia EXCEPT !.make = Absent]
BodyBadPrice == [BodyKia EXCEPT !.price = -1000]
\* a body that also carries keys the schema does not know
BodyExtraKeys ==
  [make |-> <<"k", "i", "a">>, model |-> <<"R", "I", "O">>, year |-> 2020,
   price |-> 5, fuelType |-> Petrol, status |-> AbsentStatus,
   seller |-> [name |-> <<"a", "n", "n">>, email |-> Absent],
   isActive |-> TRUE, viewCount |-> 0]
\* a patch of the price alone, every other key left out
BodyPriceOnly ==
  [make |-> Absent, model |-> Absent, year |-> AbsentNum, price |-> 6,
   fuelType |-> Absent, status |-> AbsentStatus,
   seller |-> [name |-> Absent, email |-> Absent]]
Bodies == {BodyKia, BodyBmw, BodyNoMake, BodyBadPrice, BodyExtraKeys}
\* bodies submitted to PUT /api/cars/:id
UpdateBodies == {BodyKia, BodyBmw, BodyExtraKeys, BodyPriceOnly}

\* query strings of GET /api/cars used by the lifecycle specification
QueryAll ==
  [page |-> AbsentNum, limit |-> AbsentNum, sort |-> AbsentSort, make |-> Absent,
   model |-> Absent, minPrice |-> AbsentNum, maxPrice |-> AbsentNum,
   minYear |-> AbsentNum, maxYear |-> AbsentNum, fuelType |-> Absent,
   status |-> AbsentStatus]
QuerySold == [QueryAll EXCEPT !.status = "sold", !.sort = "price", !.limit = 1]
QueryKia == [QueryAll EXCEPT !.make = <<"K", "I">>, !.minPrice = 1, !.maxPrice = 6,
                            !.page = 1, !.limit = 1, !.sort = "-year"]
LifecycleQueries == {QueryAll, QuerySold, QueryKia}

\* a listing created earlier through Car.create without a seller email
SeedCar ==
  [id |-> 1, make |-> <<"H", "o", "n", "d", "a">>, model |-> <<"C", "i", "t", "y">>,
   year |-> 2020, price |-> 8, fuelType |-> Petrol, status |-> "available",
   isActive |-> TRUE, viewCount |-> 0, updatedAt |-> 0,
   seller |-> [name |-> <<"b", "o", "b">>, email |-> Absent]]

\* an id no document has ('507f1f77bcf86cd799439011' of the tests)
FakeId == 0

\* status stand-in for a handler that ends in next(error)
NextError == 500

IdleReq == [op |-> "idle", pc |-> "idle"]

\* slots are taken in order
Idle(r) ==
  /\ reqs[r].op = "idle"
  /\ IF r = 1 THEN TRUE ELSE reqs[r - 1].op # "idle"

\* ids whose soft delete has been answered
Gone ==
  {reqs[d].id : d \in {x \in DOMAIN reqs : /\ reqs[x].op = "deleteCar"
                                           /\ reqs[x].pc = "done"
                                           /\ reqs[x].status = 200}}

AuthUnchanged == UNCHANGED <<now, issued, users, areq>>

-----------------------------------------------------------------------------
(* Handlers of carController.js; each await is one step on the collection *)

\* variant: only a missing document is not found
CarNotFoundOnlyMissing(car) == car.id = 0

\* !car || !car.isActive
CarNotFound(car) == IF car.id = 0 THEN TRUE ELSE ~car.isActive

\* getCar, up to the 404 or the await of the increment
GetCarFind(r, id) ==
  /\ Idle(r)
  /\ LET car == FindById(id)
     IN reqs' = [reqs EXCEPT ![r] =
          IF CarNotFound(car)
          THEN [op |-> "getCar", pc |-> "done", id |-> id, gone |-> Gone,
                status |-> 404, data |-> NoDoc]
          ELSE [op |-> "getCar", pc |-> "inc", id |-> id, gone |-> Gone,
                snap |-> car]]
  /\ UNCHANGED cars
  /\ AuthUnchanged

\* variant: the increment as a read-modify-write of the document read earlier
ViewCountFromSnapshot(current, snap) == snap.viewCount + 1

\* the value { $inc: { viewCount: 1 } } leaves in the document
ViewCountAfterInc(current, snap) == current + 1

\* variant: the response carries the document as the update left it
GetCarDataUpdated(car, updated) == updated

\* data: car, the document of the findById; the result of the update is
\* not used
GetCarData(car, updated) == car

\* getCar: findByIdAndUpdate with $inc, then the 200 with the document read
GetCarInc(r) ==
  /\ reqs[r].op = "getCar" /\ reqs[r].pc = "inc"
  /\ cars' = [cars EXCEPT ![reqs[r].id].viewCount =
                              ViewCountAfterInc(@, reqs[r].snap),
                            ![reqs[r].id].updatedAt = WriteTime]
  /\ reqs' = [reqs EXCEPT ![r] =
       [op |-> "getCar", pc |-> "done", id |-> reqs[r].id, gone |-> reqs[r].gone,
        status |-> 200, data |-> GetCarData(reqs[r].snap, cars'[reqs[r].id])]]
  /\ AuthUnchanged

\* validateRequest(carValidationSchema) answering 400 on POST or PUT
ValidateReject(r, op, u, raw) ==
  /\ Idle(r)
  /\ ~JoiCar(raw).ok
  /\ reqs' = [reqs EXCEPT ![r] =
       [op |-> op, pc |-> "done", user |-> u, gone |-> Gone, status |-> 400,
        data |-> NoDoc]]
  /\ UNCHANGED cars
  /\ AuthUnchanged

\* variant: a submitted seller.email wins over the one of req.user
CarDataSubmittedWins(body, user) ==
  IF body.seller.email = Absent THEN [body EXCEPT !.seller.email = user.email]
  ELSE body

\* carData: the body with seller.email set from req.user
CarData(body, user) == [body EXCEPT !.seller.email = user.email]

\* the document Car.create builds from carData: cast, defaults, pre-save
NewCar(carData, id) ==
  LET c == PreSave(CastCar(carData))
  IN [id |-> id, make |-> c.make, model |-> c.model, year |-> c.year,
      price |-> c.price, fuelType |-> c.fuelType, status |-> c.status,
      isActive |-> TRUE, viewCount |-> 0, updatedAt |-> WriteTime,
      seller |-> c.seller]

\* createCar behind authenticate and validateRequest
CreateCar(r, u, raw) ==
  /\ Idle(r)
  /\ JoiCar(raw).ok
  /\ Len(cars) < MaxCars
  /\ LET carData == CarData(JoiCar(raw).value, u)
         doc == NewCar(carData, Len(cars) + 1)
     IN IF CarValid(CastCar(carData))
        THEN /\ cars' = Append(cars, doc)
             /\ reqs' = [reqs EXCEPT ![r] =
                  [op |-> "createCar", pc |-> "done", user |-> u, gone |-> Gone,
                   body |-> JoiCar(raw).value, status |-> 201, data |-> doc]]
        ELSE /\ cars' = cars
             /\ reqs' = [reqs EXCEPT ![r] =
                  [op |-> "createCar", pc |-> "done", user |-> u, gone |-> Gone,
                   body |-> JoiCar(raw).value, status |-> NextError,
                   data |-> NoDoc]]
  /\ AuthUnchanged

\* validateRequest(carValidationSchema) answering 400 on PUT /:id, before
\* updateCar is entered
UpdateCarReject(r, u, id, raw) ==
  /\ Idle(r)
  /\ ~JoiCar(raw).ok
  /\ reqs' = [reqs EXCEPT ![r] =
       [op |-> "updateCar", pc |-> "done", id |-> id, user |-> u, gone |-> Gone,
        raw |-> raw, status |-> 400, data |-> NoDoc]]
  /\ UNCHANGED cars
  /\ AuthUnchanged

\* updateCar behind authenticate and validateRequest, up to the 404 or the
\* await of the update
UpdateCarFind(r, u, id, raw) ==
  /\ Idle(r)
  /\ JoiCar(raw).ok
  /\ reqs' = [reqs EXCEPT ![r] =
       IF FindById(id).id = 0
       THEN [op |-> "updateCar", pc |-> "done", id |-> id, user |-> u,
             gone |-> Gone, status |-> 404, data |-> NoDoc]
       ELSE [op |-> "updateCar", pc |-> "upd", id |-> id, user |-> u,
             gone |-> Gone, body |-> JoiCar(raw).value]]
  /\ UNCHANGED cars
  /\ AuthUnchanged

\* the document after findByIdAndUpdate(id, body): every key of the body is
\* $set, the nested seller object as a whole, and updatedAt with them
Updated(d, body) ==
  LET c == CastCar(body)
  IN [k \in DOMAIN d |-> IF k \in DOMAIN c THEN c[k]
                         ELSE IF k = "updatedAt" THEN WriteTime
                         ELSE d[k]]

\* updateCar: findByIdAndUpdate with runValidators, then the 200
UpdateCarApply(r) ==
  /\ reqs[r].op = "updateCar" /\ reqs[r].pc = "upd"
  /\ LET id == reqs[r].id
         new == Updated(cars[id], reqs[r].body)
         done(st, d) == [op |-> "updateCar", pc |-> "done", id |-> id,
                         user |-> reqs[r].user, gone |-> reqs[r].gone,
                         status |-> st, data |-> d]
     IN IF CarValid(new)
        THEN /\ cars' = [cars EXCEPT ![id] = new]
             /\ reqs' = [reqs EXCEPT ![r] = done(200, new)]
        ELSE /\ cars' = cars
             /\ reqs' = [reqs EXCEPT ![r] = done(NextError, NoDoc)]
  /\ AuthUnchanged

\* variant: a listing attributed to another seller is refused with 403
DeleteCarFindOwnerOnly(r, u, id) ==
  /\ Idle(r)
  /\ reqs' = [reqs EXCEPT ![r] =
       IF FindById(id).id = 0
       THEN [op |-> "deleteCar", pc |-> "done", id |-> id, user |-> u,
             gone |-> Gone, status |-> 404]
       ELSE IF FindById(id).seller.email # u.email
       THEN [op |-> "deleteCar", pc |-> "done", id |-> id, user |-> u,
             gone |-> Gone, status |-> 403]
       ELSE [op |-> "deleteCar", pc |-> "upd", id |-> id, user |-> u,
             gone |-> Gone]]
  /\ UNCHANGED cars
  /\ AuthUnchanged

\* deleteCar behind authenticate, up to the 404 or the await of the update
DeleteCarFind(r, u, id) ==
  /\ Idle(r)
  /\ reqs' = [reqs EXCEPT ![r] =
       IF FindById(id).id = 0
       THEN [op |-> "deleteCar", pc |-> "done", id |-> id, user |-> u,
             gone |-> Gone, status |-> 404]
       ELSE [op |-> "deleteCar", pc |-> "upd", id |-> id, user |-> u,
             gone |-> Gone]]
  /\ UNCHANGED cars
  /\ AuthUnchanged

\* variant: the soft delete also marks the listing sold
DeletedAndSold(d) ==
  [d EXCEPT !.isActive = FALSE, !.status = "sold", !.updatedAt = WriteTime]

\* the document after findByIdAndUpdate(id, { isActive: false })
Deleted(d) == [d EXCEPT !.isActive = FALSE, !.updatedAt = WriteTime]

\* deleteCar: findByIdAndUpdate(id, { isActive: false }), then the 200
DeleteCarApply(r) ==
  /\ reqs[r].op = "deleteCar" /\ reqs[r].pc = "upd"
  /\ cars' = [cars EXCEPT ![reqs[r].id] = Deleted(@)]
  /\ reqs' = [reqs EXCEPT ![r] =
       [op |-> "deleteCar", pc |-> "done", id |-> reqs[r].id,
        user |-> reqs[r].user, gone |-> reqs[r].gone, status |-> 200]]
  /\ AuthUnchanged

\* getCars behind validateQuery: the find of the page
GetCarsFind(r, rawq) ==
  /\ Idle(r)
  /\ JoiQuery(rawq).ok
  /\ LET q == JoiQuery(rawq).value
     IN \E s \in SortedOrders(Matching(q), q.sort) :
          reqs' = [reqs EXCEPT ![r] =
            [op |-> "getCars", pc |-> "count", query |-> q, gone |-> Gone,
             data |-> Window(s, Skip(q), q.limit)]]
  /\ UNCHANGED cars
  /\ AuthUnchanged

\* getCars: countDocuments and the response
GetCarsCount(r) ==
  /\ reqs[r].op = "getCars" /\ reqs[r].pc = "count"
  /\ LET q == reqs[r].query
         total == Cardinality(Matching(q))
         totalPages == TotalPages(total, q.limit)
     IN reqs' = [reqs EXCEPT ![r] =
          [op |-> "getCars", pc |-> "done", query |-> q, gone |-> reqs[r].gone,
           status |-> 200, count |-> Len(reqs[r].data), data |-> reqs[r].data,
           pagination |-> [page |-> q.page, limit |-> q.limit, total |-> total,
                           totalPages |-> totalPages,
                           hasNext |-> HasNext(q.page, totalPages),
                           hasPrev |-> HasPrev(q.page)]]]
  /\ UNCHANGED cars
  /\ AuthUnchanged

\* validateQuery(carQuerySchema) answering 400
QueryReject(r, rawq) ==
  /\ Idle(r)
  /\ ~JoiQuery(rawq).ok
  /\ reqs' = [reqs EXCEPT ![r] =
       [op |-> "getCars", pc |-> "done", gone |-> Gone, status |-> 400,
        data |-> <<>>]]
  /\ UNCHANGED cars
  /\ AuthUnchanged

\* the $match stage shared by the three pipelines of getCarStats
StatsMatch(d) == d.isActive /\ d.status = "available"

StatsMatched == {i \in Ids : StatsMatch(cars[i])}

RECURSIVE SumPrice(_)
SumPrice(S) ==
  IF S = {} THEN 0
  ELSE LET i == CHOOSE x \in S : TRUE IN cars[i].price + SumPrice(S \ {i})

RECURSIVE SumYear(_)
SumYear(S) ==
  IF S = {} THEN 0
  ELSE LET i == CHOOSE x \in S : TRUE IN cars[i].year + SumYear(S \ {i})

\* stats[0] || {} : the $group with _id null yields no row for no input;
\* averages are kept as their numerators (avg = sum / totalCars)
Overview(M) ==
  IF M = {} THEN [empty |-> TRUE]
  ELSE [empty |-> FALSE, totalCars |-> Cardinality(M),
        sumPrice |-> SumPrice(M), sumYear |-> SumYear(M),
        minPrice |-> CHOOSE p \in {cars[i].price : i \in M} :
                       \A i \in M : p <= cars[i].price,
        maxPrice |-> CHOOSE p \in {cars[i].price : i \in M} :
                       \A i \in M : p >= cars[i].price]

\* the rows of { $group: { _id: '$make', count, avgPrice } }
MakeGroups(M) ==
  {[make |-> m, count |-> Cardinality({i \in M : cars[i].make = m}),
    sumPrice |-> SumPrice({i \in M : cars[i].make = m})] :
     m \in {cars[i].make : i \in M}}

\* the rows of { $group: { _id: '$fuelType', count } }
FuelGroups(M) ==
  {[fuelType |-> f, count |-> Cardinality({i \in M : cars[i].fuelType = f})] :
     f \in {cars[i].fuelType : i \in M}}

\* every order { $sort: { count: -1 } } may give the rows of G: a row of the
\* largest count first, then an order of the others
RECURSIVE ByCountDesc(_)
ByCountDesc(G) ==
  IF G = {} THEN {<<>>}
  ELSE UNION {{<<g>> \o s : s \in ByCountDesc(G \ {g})} :
                g \in {x \in G : \A y \in G : x.count >= y.count}}

\* variant: the limit stage keeps one row fewer
LimitOneShort(s, n) == IF Len(s) < n THEN s ELSE SubSeq(s, 1, n - 1)

\* { $limit: n }
Limit(s, n) == IF Len(s) <= n THEN s ELSE SubSeq(s, 1, n)

\* getCarStats: the overview pipeline
GetStatsOverview(r) ==
  /\ Idle(r)
  /\ reqs' = [reqs EXCEPT ![r] =
       [op |-> "getCarStats", pc |-> "makes", gone |-> Gone,
        matched |-> StatsMatched, overview |-> Overview(StatsMatched)]]
  /\ UNCHANGED cars
  /\ AuthUnchanged

\* getCarStats: the makes pipeline
GetStatsMakes(r) ==
  /\ reqs[r].op = "getCarStats" /\ reqs[r].pc = "makes"
  /\ \E s \in ByCountDesc(MakeGroups(StatsMatched)) :
       reqs' = [reqs EXCEPT ![r] =
         [op |-> "getCarStats", pc |-> "fuel", gone |-> reqs[r].gone,
          matched |-> reqs[r].matched \cup StatsMatched,
          overview |-> reqs[r].overview,
          topMakes |-> Limit(s, TopMakesLimit)]]
  /\ UNCHANGED cars
  /\ AuthUnchanged

\* getCarStats: the fuel type pipeline and the response
GetStatsFuel(r) ==
  /\ reqs[r].op = "getCarStats" /\ reqs[r].pc = "fuel"
  /\ \E s \in ByCountDesc(FuelGroups(StatsMatched)) :
       reqs' = [reqs EXCEPT ![r] =
         [op |-> "getCarStats", pc |-> "done", gone |-> reqs[r].gone,
          status |-> 200,
          matched |-> reqs[r].matched \cup StatsMatched,
          overview |-> reqs[r].overview, topMakes |-> reqs[r].topMakes,
          fuelTypeDistribution |-> s]]
  /\ UNCHANGED cars
  /\ AuthUnchanged

\* variant: the query object without its branch for listings without email
MineFilterEmailOnly(user, d) ==
  /\ d.isActive
  /\ d.seller.email = user.email

\* the query object of getMyCars applied to one document; { $in: ['', null] }
\* also matches a missing seller.email
MineFilter(user, d) ==
  /\ d.isActive
  /\ \/ d.seller.email = user.email
     \/ /\ d.seller.email \in {<<>>, Absent}
        /\ d.seller.name = user.username

\* getMyCars behind authenticate
GetMyCars(r, u) ==
  /\ Idle(r)
  /\ \E s \in SortedOrders({i \in Ids : MineFilter(u, cars[i])}, "-createdAt") :
       reqs' = [reqs EXCEPT ![r] =
         [op |-> "getMyCars", pc |-> "done", user |-> u, gone |-> Gone,
          status |-> 200, count |-> Len(s), data |-> [i \in 1..Len(s) |-> cars[s[i]]]]]
  /\ UNCHANGED cars
  /\ AuthUnchanged

-----------------------------------------------------------------------------
(* The lifecycle specification *)

NoUser == [id |-> 0]
NoAuthReq == [stage |-> "none"]

AuthIdle ==
  /\ now = 0
  /\ issued = {}
  /\ users = <<>>
  /\ areq = NoAuthReq

Init ==
  /\ cars = <<SeedCar>>
  /\ reqs = [r \in 1..MaxReqs |-> IdleReq]
  /\ AuthIdle

TargetIds == {FakeId} \cup Ids

\* identities sending PUT and DELETE requests
Editors == {Ann, Bob}

Next ==
  \E r \in 1..MaxReqs :
    \/ \E id \in TargetIds : GetCarFind(r, id)
    \/ GetCarInc(r)
    \/ \E u \in Identities, raw \in Bodies : CreateCar(r, u, raw)
    \/ \E u \in Identities, raw \in Bodies : ValidateReject(r, "createCar", u, raw)
    \/ \E u \in Editors, id \in TargetIds, raw \in UpdateBodies :
         UpdateCarReject(r, u, id, raw)
    \/ \E u \in Editors, id \in TargetIds, raw \in UpdateBodies :
         UpdateCarFind(r, u, id, raw)
    \/ UpdateCarApply(r)
    \/ \E u \in Editors, id \in TargetIds : DeleteCarFind(r, u, id)
    \/ DeleteCarApply(r)
    \/ \E q \in LifecycleQueries : GetCarsFind(r, q)
    \/ GetCarsCount(r)
    \/ GetStatsOverview(r)
    \/ GetStatsMakes(r)
    \/ GetStatsFuel(r)
    \/ \E u \in Identities : GetMyCars(r, u)

Spec == Init /\ [][Next]_vars

-----------------------------------------------------------------------------
(* getCars over bounded stores and queries *)

MaxStore == 3      \* documents in a store of SpecQuery
MaxPage == 3       \* largest page requested in SpecQuery
MaxLimit == 2      \* largest limit requested in SpecQuery

\* documents the earlier life of the collection can have left behind
PoolCar(make, year, price, status, active) ==
  [id |-> 0, make |-> make, model |-> <<"R", "i", "o">>, year |-> year,
   price |-> price, fuelType |-> Petrol, status |-> status,
   isActive |-> active, viewCount |-> 0, updatedAt |-> 0,
   seller |-> [name |-> <<"a", "n", "n">>, email |-> EmailAnn]]

Pool ==
  {PoolCar(<<"K", "i", "a">>, 2019, 5, "available", TRUE),
   PoolCar(<<"B", "m", "w">>, 2020, 7, "available", TRUE),
   PoolCar(<<"K", "i", "a">>, 2020, 7, "sold", TRUE),
   PoolCar(<<"B", "m", "w">>, 2019, 5, "available", FALSE)}

Stores ==
  UNION {{[i \in 1..n |-> [s[i] EXCEPT !.id = i]] : s \in [1..n -> Pool]} :
           n \in 0..MaxStore}

PriceQueries ==
  {[QueryAll EXCEPT !.minPrice = lo, !.maxPrice = hi, !.status = st] :
     lo \in {AbsentNum, 0, 5, 6}, hi \in {AbsentNum, 0, 5, 7, -3},
     st \in {AbsentStatus, "sold"}}

PageQueries ==
  {[QueryAll EXCEPT !.page = p, !.limit = n, !.sort = so] :
     p \in {AbsentNum, 0} \cup 1..MaxPage,
     n \in {AbsentNum, LimitMax + 1} \cup 1..MaxLimit,
     so \in {AbsentSort, "price"}}

YearQueries ==
  {[QueryAll EXCEPT !.minYear = lo, !.maxYear = hi] :
     lo \in {AbsentNum, 2020, YearMin - 1}, hi \in {AbsentNum, 0, 2019}}

MakeQueries ==
  {[QueryAll EXCEPT !.make = m, !.fuelType = f] :
     m \in {<<"k", "i">>, <<"K", ".", "a">>, <<" ">>}, f \in {Absent, Diesel}}

Queries == PriceQueries \cup PageQueries \cup YearQueries \cup MakeQueries

InitQuery ==
  /\ cars \in Stores
  /\ reqs = [r \in 1..MaxReqs |-> IdleReq]
  /\ AuthIdle

NextQuery ==
  \/ \E rawq \in Queries : GetCarsFind(1, rawq)
  \/ GetCarsCount(1)
  \/ \E rawq \in Queries : QueryReject(1, rawq)

SpecQuery == InitQuery /\ [][NextQuery]_vars

-----------------------------------------------------------------------------
(* Properties of the lifecycle and of getCars *)

Slots == 1..MaxReqs
Answered(r, op) == reqs[r].op = op /\ reqs[r].pc = "done"

\* getCar calls on listing c answered with 200
ViewsServed(c) ==
  Cardinality({r \in Slots : Answered(r, "getCar") /\ reqs[r].status = 200
                             /\ reqs[r].id = c})

\* C1: every getCar answered with 200 has raised the persisted viewCount of
\* its listing by exactly 1: after K such calls of independent callers, in
\* whatever order their finds and increments were interleaved, the counter
\* is exactly K above its initial value 0.
C1_NoLostViews ==
  \A c \in Ids : cars[c].viewCount = ViewsServed(c)

\* two callers read the same counter value before either increment landed
C1_Witness ==
  \E r1, r2 \in Slots :
    /\ r1 # r2
    /\ Answered(r1, "getCar") /\ reqs[r1].status = 200
    /\ Answered(r2, "getCar") /\ reqs[r2].status = 200
    /\ reqs[r1].id = reqs[r2].id
    /\ reqs[r1].data.viewCount = 0 /\ reqs[r2].data.viewCount = 0
    /\ cars[reqs[r1].id].viewCount = 2

\* ids of the listings a request has read into its answer so far
Included(q) ==
  CASE q.op = "getCars" -> {q.data[i].id : i \in 1..Len(q.data)}
    [] q.op = "getCar" -> IF q.pc = "inc" \/ q.status = 200 THEN {q.id} ELSE {}
    [] q.op = "getCarStats" -> q.matched
    [] OTHER -> {}

\* C2: a listing whose deleteCar has been answered is in the answer of no
\* getCars, getCarStats or getCar request that arrived afterwards, and its
\* document is still in the collection with isActive = false.
C2_SoftDeletedHidden ==
  /\ \A r \in Slots : reqs[r].op # "idle" =>
       \A c \in reqs[r].gone : c \notin Included(reqs[r])
  /\ \A c \in Gone : c \in Ids /\ cars[c].isActive = FALSE

\* a search was answered after the soft delete of a listing that its filter
\* would return were the listing still active
C2_Witness ==
  \E r \in Slots :
    /\ reqs[r].pc = "done" /\ reqs[r].status = 200
    /\ reqs[r].op = "getCars"
    /\ \E c \in reqs[r].gone :
         CarsFilter(reqs[r].query, [cars[c] EXCEPT !.isActive = TRUE])

\* C3: the document stored by a createCar of identity U has seller.email
\* equal to U's email, whatever seller.email the body carried.
C3_SellerEmailStamped ==
  \A r \in Slots :
    (Answered(r, "createCar") /\ reqs[r].status = 201) =>
      /\ reqs[r].data.seller.email = reqs[r].user.email
      /\ reqs[r].data.id \in Ids

\* a listing was created from a body carrying another seller email
C3_Witness ==
  \E r \in Slots :
    /\ Answered(r, "createCar") /\ reqs[r].status = 201
    /\ reqs[r].body.seller.email \notin {Absent, <<>>, reqs[r].user.email}

\* the optional bound is absent or holds
AtLeast(bound, v) == bound = AbsentNum \/ v >= bound
AtMost(bound, v) == bound = AbsentNum \/ v <= bound

\* C9: getCars with minPrice = X and maxPrice = Y returns exactly the active
\* listings of the requested status with X <= price <= Y, an omitted bound
\* constraining nothing (stated for requests that carry no other predicate
\* and whose page holds every match).
C9_PriceRangeExact ==
  \A r \in Slots :
    (/\ Answered(r, "getCars") /\ reqs[r].status = 200
     /\ reqs[r].query.limit >= Len(cars) /\ reqs[r].query.page = 1
     /\ reqs[r].query.make = Absent /\ reqs[r].query.model = Absent
     /\ reqs[r].query.fuelType = Absent
     /\ reqs[r].query.minYear = AbsentNum /\ reqs[r].query.maxYear = AbsentNum) =>
      {reqs[r].data[i].id : i \in 1..Len(reqs[r].data)} =
        {c \in Ids : /\ cars[c].isActive
                     /\ cars[c].status = reqs[r].query.status
                     /\ AtLeast(reqs[r].query.minPrice, cars[c].price)
                     /\ AtMost(reqs[r].query.maxPrice, cars[c].price)}

\* C10: a getCars answer holds at most limit listings, totalPages is the
\* ceiling of total / limit, hasNext is true exactly when page * limit <
\* total, hasPrev exactly when page > 1.
C10_Pagination ==
  \A r \in Slots :
    (Answered(r, "getCars") /\ reqs[r].status = 200) =>
      LET p == reqs[r].pagination
      IN /\ reqs[r].count = Len(reqs[r].data)
         /\ reqs[r].count <= p.limit
         /\ p.page >= 1 /\ p.limit \in 1..LimitMax
         /\ p.totalPages * p.limit >= p.total
         /\ (p.totalPages - 1) * p.limit < p.total \/ p.total = 0
         /\ p.total = 0 => p.totalPages = 0
         /\ p.hasNext <=> (p.page * p.limit < p.total)
         /\ p.hasPrev <=> (p.page > 1)

\* a middle page: full, with a page before and a page after it
C10_Witness ==
  \E r \in Slots :
    /\ Answered(r, "getCars") /\ reqs[r].status = 200
    /\ reqs[r].pagination.hasNext /\ reqs[r].pagination.hasPrev
    /\ reqs[r].count = reqs[r].pagination.limit

-----------------------------------------------------------------------------
(* utils/jwt.js *)

AccessSpan == 900            \* '15m' in seconds
RefreshSpan == 604800        \* '7d' in seconds
ServerSecret == "JWT_SECRET"
Issuer == "car-listing-api"
Audience == "car-listing-app"

\* jwt.sign(payload, secret, { expiresIn, issuer, audience }) at time t
JwtSign(payload, secret, expiresIn, t) ==
  [payload |-> payload, secret |-> secret, iss |-> Issuer, aud |-> Audience,
   iat |-> t, exp |-> t + expiresIn]

\* generateToken
GenerateToken(payload, expiresIn) == JwtSign(payload, ServerSecret, expiresIn, now)

\* generateTokens
GenerateTokens(user) ==
  [accessToken |-> GenerateToken([id |-> user.id, email |-> user.email,
                                  username |-> user.username, role |-> user.role],
                                 AccessSpan),
   refreshToken |-> GenerateToken([id |-> user.id], RefreshSpan),
   expiresIn |-> 15 * 60]

\* the atoms a header value is written with: a space, a word, a signed token
Sp == [k |-> "sp"]
Word(w) == [k |-> "word", w |-> w]
Jwt(t) == [k |-> "jwt", t |-> t]

\* variant: verification with ignoreExpiration
JwtVerifyIgnoringExpiry(text, secret, t) ==
  IF Len(text) # 1 \/ text[1].k # "jwt" THEN "JsonWebTokenError"
  ELSE IF text[1].t.secret # secret THEN "JsonWebTokenError"
  ELSE IF text[1].t.aud # Audience THEN "JsonWebTokenError"
  ELSE IF text[1].t.iss # Issuer THEN "JsonWebTokenError"
  ELSE ""

\* jwt.verify(token, secret, { issuer, audience }): the name of the error it
\* throws, or "" ; the signature is checked first, then exp, then audience
\* and issuer
JwtVerify(text, secret, t) ==
  IF Len(text) # 1 \/ text[1].k # "jwt" THEN "JsonWebTokenError"
  ELSE IF text[1].t.secret # secret THEN "JsonWebTokenError"
  ELSE IF t >= text[1].t.exp THEN "TokenExpiredError"
  ELSE IF text[1].t.aud # Audience THEN "JsonWebTokenError"
  ELSE IF text[1].t.iss # Issuer THEN "JsonWebTokenError"
  ELSE ""

MsgExpired == "Token has expired"
MsgInvalid == "Invalid token"
MsgFailed == "Token verification failed"

\* verifyToken: the decoded payload, or the message of the error thrown
VerifyToken(text) ==
  LET err == JwtVerify(text, ServerSecret, now)
  IN IF err = "" THEN [ok |-> TRUE, decoded |-> text[1].t.payload, message |-> ""]
     ELSE [ok |-> FALSE, decoded |-> [id |-> 0],
           message |-> IF err = "TokenExpiredError" THEN MsgExpired
                       ELSE IF err = "JsonWebTokenError" THEN MsgInvalid
                       ELSE MsgFailed]

\* an absent Authorization header, and the null extractTokenFromHeader returns
NoHeader == <<[k |-> "undefined"]>>
Null == <<[k |-> "null"]>>

\* authHeader.split(' ')
RECURSIVE Split(_)
Split(h) ==
  IF h = <<>> THEN << <<>> >>
  ELSE LET rest == Split(Tail(h))
       IN IF Head(h) = Sp THEN << <<>> >> \o rest
          ELSE << <<Head(h)>> \o Head(rest) >> \o Tail(rest)

\* variant: the scheme word is not compared with 'Bearer'
ExtractTokenAnyScheme(authHeader) ==
  IF authHeader = NoHeader \/ authHeader = <<>> THEN Null
  ELSE LET parts == Split(authHeader)
       IN IF Len(parts) # 2 THEN Null ELSE parts[2]

\* extractTokenFromHeader
ExtractTokenFromHeader(authHeader) ==
  IF authHeader = NoHeader \/ authHeader = <<>> THEN Null
  ELSE LET parts == Split(authHeader)
       IN IF Len(parts) # 2 \/ parts[1] # <<Word("Bearer")>> THEN Null
          ELSE parts[2]

\* !token
Falsy(token) == token = Null \/ token = <<>>

-----------------------------------------------------------------------------
(* middleware/auth.js *)

MsgNoToken == "Access denied. No token provided."
MsgNoUser == "Access denied. User not found or inactive."
MsgAuthRequired == "Access denied. Authentication required."
MsgForbidden == "Access denied. Insufficient permissions."
MsgStore == "store lookup failed"

\* User.findById
FindUser(id) == IF id \in DOMAIN users THEN users[id] ELSE NoUser

Outcome(next, status, message, user, verified, found) ==
  [next |-> next, status |-> status, message |-> message, user |-> user,
   verified |-> verified, found |-> found]

NotVerified == [ok |-> FALSE, decoded |-> [id |-> 0], message |-> "not verified"]

\* the awaited User.findById rejected
LookupFailed == [id |-> -1]

\* variant: a request without a token is let through
AuthenticateNoTokenPasses(header, storeOk) ==
  LET token == ExtractTokenFromHeader(header)
      v == VerifyToken(token)
      user == FindUser(v.decoded.id)
  IN IF Falsy(token) THEN Outcome(1, 0, "", NoUser, NotVerified, NoUser)
     ELSE IF ~v.ok THEN Outcome(0, 401, v.message, NoUser, v, NoUser)
     ELSE IF ~storeOk THEN Outcome(0, 401, MsgStore, NoUser, v, LookupFailed)
     ELSE IF user.id = 0 \/ ~user.isActive
          THEN Outcome(0, 401, MsgNoUser, NoUser, v, user)
     ELSE Outcome(1, 0, "", user, v, user)

\* variant: the isActive flag of the user is not looked at
AuthenticateIgnoresInactive(header, storeOk) ==
  LET token == ExtractTokenFromHeader(header)
      v == VerifyToken(token)
      user == FindUser(v.decoded.id)
  IN IF Falsy(token) THEN Outcome(0, 401, MsgNoToken, NoUser, NotVerified, NoUser)
     ELSE IF ~v.ok THEN Outcome(0, 401, v.message, NoUser, v, NoUser)
     ELSE IF ~storeOk THEN Outcome(0, 401, MsgStore, NoUser, v, LookupFailed)
     ELSE IF user.id = 0 THEN Outcome(0, 401, MsgNoUser, NoUser, v, user)
     ELSE Outcome(1, 0, "", user, v, user)

\* authenticate on a request with this header; storeOk tells whether the
\* awaited User.findById resolves
AuthenticateOutcome(header, storeOk) ==
  LET token == ExtractTokenFromHeader(header)
      v == VerifyToken(token)
      user == FindUser(v.decoded.id)
  IN IF Falsy(token) THEN Outcome(0, 401, MsgNoToken, NoUser, NotVerified, NoUser)
     ELSE IF ~v.ok THEN Outcome(0, 401, v.message, NoUser, v, NoUser)
     ELSE IF ~storeOk THEN Outcome(0, 401, MsgStore, NoUser, v, LookupFailed)
     ELSE IF user.id = 0 \/ ~user.isActive
          THEN Outcome(0, 401, MsgNoUser, NoUser, v, user)
     ELSE Outcome(1, 0, "", user, v, user)

\* variant: a token that does not verify is answered like authenticate does
OptionalAuthRejectsBadToken(header, storeOk) ==
  LET token == ExtractTokenFromHeader(header)
      v == VerifyToken(token)
      user == FindUser(v.decoded.id)
  IN IF Falsy(token) THEN Outcome(1, 0, "", NoUser, NotVerified, NoUser)
     ELSE IF ~v.ok THEN Outcome(0, 401, v.message, NoUser, v, NoUser)
     ELSE IF ~storeOk THEN Outcome(1, 0, "", NoUser, v, LookupFailed)
     ELSE IF user.id # 0 /\ user.isActive THEN Outcome(1, 0, "", user, v, user)
     ELSE Outcome(1, 0, "", NoUser, v, user)

\* optionalAuth on a request with this header
OptionalAuthOutcome(header, storeOk) ==
  LET token == ExtractTokenFromHeader(header)
      v == VerifyToken(token)
      user == FindUser(v.decoded.id)
  IN IF Falsy(token) THEN Outcome(1, 0, "", NoUser, NotVerified, NoUser)
     ELSE IF ~v.ok THEN Outcome(1, 0, "", NoUser, v, NoUser)
     ELSE IF ~storeOk THEN Outcome(1, 0, "", NoUser, v, LookupFailed)
     ELSE IF user.id # 0 /\ user.isActive THEN Outcome(1, 0, "", user, v, user)
     ELSE Outcome(1, 0, "", NoUser, v, user)

\* variant: every bound identity passes, whatever its role
AuthorizeAnyRole(user, roles) ==
  IF user.id = 0 THEN Outcome(0, 401, MsgAuthRequired, user, NotVerified, NoUser)
  ELSE Outcome(1, 0, "", user, NotVerified, NoUser)

\* authorize(...roles) on a request whose req.user is user
AuthorizeOutcome(user, roles) ==
  IF user.id = 0 THEN Outcome(0, 401, MsgAuthRequired, user, NotVerified, NoUser)
  ELSE IF user.role \notin roles
       THEN Outcome(0, 403, MsgForbidden, user, NotVerified, NoUser)
  ELSE Outcome(1, 0, "", user, NotVerified, NoUser)

\* one middleware of the chain has run: its outcome is logged, a response
\* ends the request, next() hands it on
Ran(mw, o) ==
  areq' = [areq EXCEPT
             !.chain = Tail(@),
             !.user = o.user,
             !.status = o.status,
             !.message = o.message,
             !.stage = IF o.next = 0 THEN "done" ELSE "mw",
             !.log = Append(@, [mw |-> mw, at |-> now, before |-> areq.user,
                                out |-> o])]

Authenticate(storeOk) ==
  /\ areq.stage = "mw" /\ areq.chain # <<>> /\ Head(areq.chain) = "authenticate"
  /\ Ran("authenticate", AuthenticateOutcome(areq.header, storeOk))
  /\ UNCHANGED <<cars, reqs, now, issued, users>>

OptionalAuth(storeOk) ==
  /\ areq.stage = "mw" /\ areq.chain # <<>> /\ Head(areq.chain) = "optionalAuth"
  /\ Ran("optionalAuth", OptionalAuthOutcome(areq.header, storeOk))
  /\ UNCHANGED <<cars, reqs, now, issued, users>>

Authorize ==
  /\ areq.stage = "mw" /\ areq.chain # <<>> /\ Head(areq.chain) = "authorize"
  /\ Ran("authorize", AuthorizeOutcome(areq.user, areq.roles))
  /\ UNCHANGED <<cars, reqs, now, issued, users>>

\* the route handler behind the chain
RouteHandler ==
  /\ areq.stage = "mw" /\ areq.chain = <<>>
  /\ areq' = [areq EXCEPT !.stage = "done", !.handled = @ + 1]
  /\ UNCHANGED <<cars, reqs, now, issued, users>>

-----------------------------------------------------------------------------
(* The auth specification *)

MaxIssued == 1     \* token pairs handed out in a behaviour of SpecAuth

Dan == [id |-> 4, username |-> <<"d", "a", "n">>,
        email |-> <<"d", "@", "x", ".", "i", "o">>, role |-> "user",
        isActive |-> FALSE]

\* the users collection: Ann and Bob active, Dan deactivated, Cat removed
UserStore == <<Ann, Bob, NoUser, Dan>>
TokenHolders == {Ann, Cat, Dan}

IssueTimes == {0, 7}
Offsets == {0, AccessSpan - 1, AccessSpan, AccessSpan + 1,
            RefreshSpan - 1, RefreshSpan, RefreshSpan + 1}
Clock == {i + o : i \in IssueTimes, o \in Offsets}

\* tokens not made by generateTokens of this server: another secret, issuer
\* or audience
Foreign(t) ==
  {[t EXCEPT !.secret = "other-secret"], [t EXCEPT !.iss = "other-api"],
   [t EXCEPT !.aud = "other-app"]}

IssuedTokens == UNION {{p.accessToken, p.refreshToken} : p \in issued}
AccessTokens == {p.accessToken : p \in issued}
Presentable == IssuedTokens \cup UNION {Foreign(t) : t \in AccessTokens}

Bearer == Word("Bearer")
Headers ==
  {NoHeader, <<>>, <<Bearer>>, <<Bearer, Sp>>, <<Bearer, Sp, Word("abc")>>}
  \cup {<<Bearer, Sp, Jwt(t)>> : t \in Presentable}
  \cup UNION {{<<Word("Basic"), Sp, Jwt(t)>>, <<Word("bearer"), Sp, Jwt(t)>>,
               <<Bearer, Sp, Sp, Jwt(t)>>, <<Bearer, Jwt(t)>>,
               <<Bearer, Sp, Jwt(t), Sp, Word("abc")>>} : t \in AccessTokens}

\* the guards of a route and the roles its authorize(...) is built with
Routes ==
  {[chain |-> <<"authenticate">>, roles |-> {}],
   [chain |-> <<"optionalAuth">>, roles |-> {}]}
  \cup {[chain |-> ch, roles |-> ro] :
          ch \in {<<"authenticate", "authorize">>, <<"optionalAuth", "authorize">>,
                  <<"authorize">>},
          ro \in {{"admin"}, {"user", "admin"}}}

\* the clock moves on; a request reads it once, in its verifyToken, so time
\* passing after its arrival is not distinguished
Tick(t) ==
  /\ areq.stage = "none"
  /\ t > now
  /\ now' = t
  /\ UNCHANGED <<cars, reqs, issued, users, areq>>

\* generateTokens(user) as called by register and login
IssueTokens(u) ==
  /\ now \in IssueTimes
  /\ Cardinality(issued) < MaxIssued
  /\ issued' = issued \cup {GenerateTokens(u)}
  /\ UNCHANGED <<cars, reqs, now, users, areq>>

\* a request enters a route guarded by this chain
Arrive(header, route) ==
  /\ areq.stage = "none"
  /\ areq' = [stage |-> "mw", header |-> header, chain |-> route.chain,
              roles |-> route.roles,
              user |-> NoUser, status |-> 0, message |-> "", handled |-> 0,
              log |-> <<>>]
  /\ UNCHANGED <<cars, reqs, now, issued, users>>

InitAuth ==
  /\ cars = <<>>
  /\ reqs = [r \in 1..MaxReqs |-> IdleReq]
  /\ now = 0
  /\ issued = {}
  /\ users = UserStore
  /\ areq = NoAuthReq

NextAuth ==
  \/ \E t \in Clock : Tick(t)
  \/ \E u \in TokenHolders : IssueTokens(u)
  \/ \E h \in Headers, ro \in Routes : Arrive(h, ro)
  \/ \E ok \in BOOLEAN : Authenticate(ok)
  \/ \E ok \in BOOLEAN : OptionalAuth(ok)
  \/ Authorize
  \/ RouteHandler

SpecAuth == InitAuth /\ [][NextAuth]_vars

-----------------------------------------------------------------------------
(* Properties of the auth middleware and of the tokens *)

Log == IF areq.stage = "none" THEN <<>> ELSE areq.log
Runs(mw) == {Log[i] : i \in {j \in 1..Len(Log) : Log[j].mw = mw}}

\* C4: authenticate on a request without Authorization header answers 401
\* with the no-token message, binds no identity and nothing behind it runs;
\* optionalAuth on such a request calls next() with no identity bound and
\* sends no response.
C4_MissingHeader ==
  (areq.stage # "none" /\ areq.header = NoHeader) =>
    /\ \A e \in Runs("authenticate") :
         /\ e.out.next = 0 /\ e.out.status = 401
         /\ e.out.message = "Access denied. No token provided."
         /\ e.out.user = NoUser
         /\ areq.stage = "done" /\ areq.handled = 0 /\ Len(Log) = 1
         /\ areq.status = 401 /\ areq.user = NoUser
    /\ \A e \in Runs("optionalAuth") :
         /\ e.out.next = 1 /\ e.out.status = 0 /\ e.out.message = ""
         /\ e.out.user = NoUser

\* authenticate has answered a request that carried no Authorization header
C4_Witness ==
  /\ areq.stage = "done" /\ areq.header = NoHeader
  /\ Runs("authenticate") # {}
  /\ areq.status = 401

\* the lookup of an outcome returned an active user document
FoundActive(o) == o.found.id > 0 /\ o.found.isActive

\* C5: authenticate calls next() exactly when a bearer token was extracted,
\* it verified, and the lookup of the token's id returned an active user;
\* then req.user is that user and no response is sent; in every other case
\* it answers 401, binds nothing and nothing behind it runs.
C5_AuthenticateGate ==
  \A e \in Runs("authenticate") :
    LET o == e.out
    IN /\ o.next \in {0, 1}
       /\ o.next = 1 <=> /\ ~Falsy(ExtractTokenFromHeader(areq.header))
                         /\ o.verified.ok
                         /\ FoundActive(o)
       /\ (o.verified.ok /\ o.found # LookupFailed) =>
             o.found = FindUser(o.verified.decoded.id)
       /\ o.next = 1 => o.status = 0 /\ o.user = o.found
       /\ o.next = 0 => /\ o.status = 401 /\ o.user = NoUser
                        /\ areq.stage = "done" /\ areq.handled = 0
                        /\ areq.user = NoUser /\ Len(Log) = 1

\* a token that verified named a deactivated user and was turned away
C5_Witness ==
  \E e \in Runs("authenticate") :
    /\ e.out.verified.ok /\ e.out.found.id > 0 /\ ~e.out.found.isActive
    /\ areq.status = 401

\* the token a request presented, when its header has the Bearer form and
\* carries one signed token
Presented ==
  IF areq.stage = "none" THEN {}
  ELSE LET tok == ExtractTokenFromHeader(areq.header)
       IN IF Len(tok) = 1 /\ tok[1].k = "jwt" THEN {tok[1].t} ELSE {}

\* 15 minutes for a token with the access payload, 7 days for a refresh token
StatedLifetime(t) ==
  IF "email" \in DOMAIN t.payload THEN 15 * 60 ELSE 7 * 24 * 60 * 60

Verifications == Runs("authenticate") \cup Runs("optionalAuth")

MadeHere(t) == t.secret = ServerSecret /\ t.iss = Issuer /\ t.aud = Audience

\* the first half of C6: a token of generateTokens verifies before its
\* stated lifetime has elapsed and fails as expired after it
IssuedLifetime(e, t) ==
  (t \in IssuedTokens) =>
    /\ e.at < t.iat + StatedLifetime(t) =>
         e.out.verified.ok /\ e.out.verified.decoded = t.payload
    /\ e.at > t.iat + StatedLifetime(t) =>
         ~e.out.verified.ok /\ e.out.verified.message = MsgExpired

\* C6 as stated: a token of generateTokens verifies before its stated
\* lifetime has elapsed and fails as expired after it; a token with another
\* secret, issuer or audience fails as invalid.
C6_TokenLifetimeAsStated ==
  \A e \in Verifications : \A t \in Presented :
    /\ IssuedLifetime(e, t)
    /\ ~MadeHere(t) =>
         ~e.out.verified.ok /\ e.out.verified.message = MsgInvalid

\* C6, amended: as stated, but a token signed with the server's secret for
\* another issuer or audience fails as invalid only until its own expiry and
\* as expired from then on; one signed with another secret always fails as
\* invalid.
C6_TokenLifetime ==
  \A e \in Verifications : \A t \in Presented :
    /\ IssuedLifetime(e, t)
    /\ t.secret # ServerSecret =>
         ~e.out.verified.ok /\ e.out.verified.message = MsgInvalid
    /\ (t.secret = ServerSecret /\ ~MadeHere(t)) =>
         /\ ~e.out.verified.ok
         /\ e.at < t.exp => e.out.verified.message = MsgInvalid
         /\ e.at >= t.exp => e.out.verified.message = MsgExpired

\* a token for another issuer or audience was presented after its expiry
C6_Witness ==
  \E e \in Verifications : \E t \in Presented :
    /\ t.secret = ServerSecret /\ ~MadeHere(t)
    /\ e.at >= t.exp
    /\ e.out.verified.message = MsgExpired

\* C7: authorize(roles) calls next() only for a bound identity whose role is
\* in roles; it answers 401 when no identity is bound and 403 when the bound
\* identity's role is not in roles.
C7_Authorize ==
  \A e \in Runs("authorize") :
    /\ e.out.next = 1 <=> (e.before.id # 0 /\ e.before.role \in areq.roles)
    /\ e.before.id = 0 => e.out.next = 0 /\ e.out.status = 401
    /\ (e.before.id # 0 /\ e.before.role \notin areq.roles) =>
         e.out.next = 0 /\ e.out.status = 403
    /\ e.out.next = 1 => e.out.status = 0
    /\ e.out.next = 0 => areq.stage = "done" /\ areq.handled = 0
    /\ e.out.user = e.before

\* a bound identity was refused for its role
C7_Witness ==
  \E e \in Runs("authorize") :
    /\ e.before.id # 0 /\ e.before.role \notin areq.roles
    /\ areq.status = 403 /\ areq.stage = "done"

\* C8: optionalAuth calls next() once and sends no response for every
\* request, and binds an identity exactly when the token verified and the
\* lookup returned an active user.
C8_OptionalAuthNeverFails ==
  /\ \A e \in Runs("optionalAuth") :
       /\ e.out.next = 1 /\ e.out.status = 0 /\ e.out.message = ""
       /\ e.out.user.id # 0 <=> (e.out.verified.ok /\ FoundActive(e.out))
       /\ e.out.user.id # 0 => e.out.user = FindUser(e.out.verified.decoded.id)
  /\ (areq.stage = "done" /\ areq.chain = <<>> /\ Runs("optionalAuth") # {}
        /\ Len(Log) = 1) =>
       areq.handled = 1 /\ areq.status = 0

\* an expired token went through optionalAuth and the handler ran unbound
C8_Witness ==
  \E e \in Runs("optionalAuth") :
    /\ ~e.out.verified.ok /\ e.out.verified.message = MsgExpired
    /\ areq.stage = "done" /\ areq.handled = 1 /\ areq.user = NoUser

-----------------------------------------------------------------------------
(* getCarStats over stores that no request writes *)

MaxMakes == 11     \* distinct makes in a store of SpecStats

\* the k-th make of a store of many makes
MakeName(k) == <<"M", LowerLetters[k]>>

\* a store of n makes, the k-th of them on (k \div 2) + 1 listings
RECURSIVE MakeRows(_)
MakeRows(n) ==
  IF n = 0 THEN <<>>
  ELSE MakeRows(n - 1) \o
       [i \in 1..((n \div 2) + 1) |->
          PoolCar(MakeName(n), 2020, n, "available", TRUE)]

MakeStore(n) == [i \in 1..Len(MakeRows(n)) |-> [MakeRows(n)[i] EXCEPT !.id = i]]

StatsStores == Stores \cup {MakeStore(n) : n \in 0..MaxMakes}

InitStats ==
  /\ cars \in StatsStores
  /\ reqs = [r \in 1..MaxReqs |-> IdleReq]
  /\ AuthIdle

NextStats ==
  \/ GetStatsOverview(1)
  \/ GetStatsMakes(1)
  \/ GetStatsFuel(1)

SpecStats == InitStats /\ [][NextStats]_vars

\* the listings the statistics are about
Qualifying == {c \in Ids : cars[c].isActive /\ cars[c].status = "available"}

RECURSIVE SumCounts(_)
SumCounts(rows) ==
  IF rows = <<>> THEN 0 ELSE Head(rows).count + SumCounts(Tail(rows))

\* C11: on a store no request writes, a getCarStats answer is a 200 whose
\* overview.totalCars is the number of listings with isActive = true and
\* status = available, whose topMakes counts add up to totalCars when those
\* listings have at most 10 distinct makes, and whose overview is empty when
\* no listing qualifies.
C11_StatsTotals ==
  \A r \in Slots :
    Answered(r, "getCarStats") =>
      /\ reqs[r].status = 200
      /\ reqs[r].overview.empty <=> (Qualifying = {})
      /\ ~reqs[r].overview.empty =>
            reqs[r].overview.totalCars = Cardinality(Qualifying)
      /\ Cardinality({cars[c].make : c \in Qualifying}) <= 10 =>
            SumCounts(reqs[r].topMakes) = Cardinality(Qualifying)

\* statistics over listings of exactly ten makes, several listings a make
C11_Witness ==
  \E r \in Slots :
    /\ Answered(r, "getCarStats")
    /\ Len(reqs[r].topMakes) = 10
    /\ Cardinality({cars[c].make : c \in Qualifying}) = 10
    /\ reqs[r].overview.totalCars > 10

\* statistics over a store in which no listing qualifies
C11_WitnessEmpty ==
  \E r \in Slots :
    /\ Answered(r, "getCarStats")
    /\ Len(cars) > 0 /\ Qualifying = {}
    /\ reqs[r].overview.empty

-----------------------------------------------------------------------------
(* The filter of getCars, listing by listing *)

\* text holds pattern as a substring, letter case aside
ContainsCI(pattern, text) ==
  \E i \in 1..(Len(text) + 1) :
    /\ i + Len(pattern) - 1 <= Len(text)
    /\ SubSeq(ToLower(text), i, i + Len(pattern) - 1) = ToLower(pattern)

\* C12: every listing a getCars answer returns has isActive = true and the
\* requested status (available when omitted) and satisfies each optional
\* predicate the request carries: the price and year bounds, the partial
\* match on make and model, the fuel type.
C12_ReturnedSatisfyFilter ==
  \A r \in Slots :
    (Answered(r, "getCars") /\ reqs[r].status = 200) =>
      \A i \in 1..Len(reqs[r].data) :
        LET d == reqs[r].data[i]
            q == reqs[r].query
        IN /\ d.isActive
           /\ d.status = q.status
           /\ AtLeast(q.minPrice, d.price) /\ AtMost(q.maxPrice, d.price)
           /\ AtLeast(q.minYear, d.year) /\ AtMost(q.maxYear, d.year)
           /\ q.make # Absent => ContainsCI(q.make, d.make)
           /\ q.model # Absent => ContainsCI(q.model, d.model)
           /\ q.fuelType # Absent => d.fuelType = q.fuelType

-----------------------------------------------------------------------------
(* getCar *)

\* C13: a getCar whose id has no record, or whose record has isActive =
\* false, is answered 404 in the step that looks the id up, that step leaves
\* every listing as it was, and the answered request takes no further step.
C13_NotFoundLeavesStore ==
  [][\A r \in Slots :
       /\ (reqs[r].op = "idle" /\ reqs'[r].op = "getCar") =>
            LET car == FindById(reqs'[r].id)
            IN (IF car.id = 0 THEN TRUE ELSE car.isActive = FALSE) =>
                 /\ reqs'[r].pc = "done" /\ reqs'[r].status = 404
                 /\ cars' = cars
       /\ (Answered(r, "getCar") /\ reqs[r].status = 404) =>
            reqs'[r] = reqs[r]]_vars

\* a lookup of a soft-deleted listing was answered 404
C13_Witness ==
  \E r \in Slots :
    /\ Answered(r, "getCar") /\ reqs[r].status = 404
    /\ reqs[r].id \in Ids /\ ~cars[reqs[r].id].isActive

\* a lookup of an id without a record was answered 404
C13_WitnessMissing ==
  \E r \in Slots :
    /\ Answered(r, "getCar") /\ reqs[r].status = 404
    /\ reqs[r].id = FakeId

\* C14: the step that answers a getCar with 200 is the step that commits its
\* increment of the persisted viewCount, and the viewCount of the returned
\* listing is the value the counter held when the listing was read, which is
\* at most the value the increment was applied to: the answer never counts
\* the call's own view.
C14_SnapshotBeforeIncrement ==
  [][\A r \in Slots :
       /\ (reqs[r].op = "idle" /\ reqs'[r].op = "getCar" /\ reqs'[r].pc = "inc") =>
            reqs'[r].snap.viewCount = cars[reqs'[r].id].viewCount
       /\ (reqs[r].op = "getCar" /\ reqs[r].pc = "inc" /\ reqs'[r] # reqs[r]) =>
            /\ reqs'[r].pc = "done" /\ reqs'[r].status = 200
            /\ cars'[reqs[r].id].viewCount = cars[reqs[r].id].viewCount + 1
            /\ reqs'[r].data.viewCount = reqs[r].snap.viewCount
            /\ reqs'[r].data.viewCount <= cars[reqs[r].id].viewCount
       /\ (reqs'[r].op = "getCar" /\ reqs'[r].pc = "done" /\ reqs'[r].status = 200) =>
            (reqs[r].op = "getCar" /\ reqs[r].pc \in {"inc", "done"})]_vars

\* two answered lookups of one listing, the second read after the first
\* increment: they return 0 and 1 while the counter stands at 2
C14_Witness ==
  \E r1, r2 \in Slots :
    /\ Answered(r1, "getCar") /\ reqs[r1].status = 200
    /\ Answered(r2, "getCar") /\ reqs[r2].status = 200
    /\ reqs[r1].id = reqs[r2].id
    /\ reqs[r1].data.viewCount = 0 /\ reqs[r2].data.viewCount = 1
    /\ cars[reqs[r1].id].viewCount = 2

-----------------------------------------------------------------------------
(* updateCar and deleteCar *)

\* the body as submitted, which a request keeps until validateRequest puts
\* the converted value in its place
Submitted(q) == IF "raw" \in DOMAIN q THEN q.raw ELSE NoDoc

\* C15: a PUT on an existing listing whose body holds the price alone is
\* answered 200 and leaves the listing with the price of the body.
C15_PartialPatchApplied ==
  \A r \in Slots :
    (/\ Answered(r, "updateCar")
     /\ reqs[r].id \in Ids
     /\ Submitted(reqs[r]) = BodyPriceOnly) =>
      /\ reqs[r].status = 200
      /\ reqs[r].data.price = BodyPriceOnly.price

\* the listing is attributed to the identity, by seller email or, for a
\* listing without one, by seller name
Attributed(user, d) ==
  \/ d.seller.email = user.email
  \/ d.seller.email \in {<<>>, Absent} /\ d.seller.name = user.username

\* C16: whoever the authenticated identity is, a deleteCar on an existing
\* listing is answered 200 and has made the listing inactive, and an
\* updateCar on an existing listing whose body passed validateRequest is
\* answered 200 with the updated listing unless the store's own validators
\* reject the body; neither handler compares the identity with the
\* listing's seller, and neither answers 401, 403 or 404.
C16_NoOwnershipCheck ==
  \A r \in Slots :
    /\ (Answered(r, "deleteCar") /\ reqs[r].id \in Ids) =>
         /\ reqs[r].status = 200
         /\ cars[reqs[r].id].isActive = FALSE
    /\ (Answered(r, "updateCar") /\ reqs[r].id \in Ids /\ reqs[r].status # 400) =>
         /\ reqs[r].status \in {200, NextError}
         /\ reqs[r].status = 200 => reqs[r].data.id = reqs[r].id

\* an identity deleted, and an identity updated, a listing attributed to
\* somebody else
C16_Witness ==
  \E r1, r2 \in Slots :
    /\ Answered(r1, "deleteCar") /\ reqs[r1].status = 200
    /\ ~Attributed(reqs[r1].user, cars[reqs[r1].id])
    /\ Answered(r2, "updateCar") /\ reqs[r2].status = 200
    /\ ~Attributed(reqs[r2].user, SeedCar) /\ reqs[r2].id = SeedCar.id

\* a deleteCar request arrives in this step
DeleteArrives(r) == reqs[r].op = "idle" /\ reqs'[r].op = "deleteCar"

\* a deleteCar request past its lookup performs its write in this step
DeleteWrites(r) ==
  reqs[r].op = "deleteCar" /\ reqs[r].pc = "upd" /\ reqs'[r] # reqs[r]

-----------------------------------------------------------------------------
(* getMyCars over bounded stores *)

MaxMine == 2       \* documents in a store of SpecMine

\* a listing as an earlier create, update or import can have left it
SellerCar(name, email, status, active) ==
  [PoolCar(<<"K", "i", "a">>, 2020, 5, status, active)
     EXCEPT !.seller = [name |-> name, email |-> email]]

SellerPool ==
  {SellerCar(Ann.username, EmailAnn, "available", TRUE),
   SellerCar(Ann.username, Absent, "sold", TRUE),
   SellerCar(Bob.username, <<>>, "available", TRUE),
   SellerCar(Ann.username, EmailBob, "reserved", TRUE),
   SellerCar(Ann.username, EmailAnn, "available", FALSE),
   SellerCar(Bob.username, Absent, "available", FALSE)}

MineStores ==
  UNION {{[i \in 1..n |-> [s[i] EXCEPT !.id = i]] : s \in [1..n -> SellerPool]} :
           n \in 0..MaxMine}

InitMine ==
  /\ cars \in MineStores
  /\ reqs = [r \in 1..MaxReqs |-> IdleReq]
  /\ AuthIdle

NextMine == \E u \in Identities : GetMyCars(1, u)

SpecMine == InitMine /\ [][NextMine]_vars

\* C18: the answer of getMyCars for identity U holds, once each, exactly
\* the listings with isActive = true, of whatever status, whose seller
\* email is U's email, or whose seller email is empty, null or missing and
\* whose seller name is U's username.
C18_MyCarsExact ==
  \A r \in Slots :
    Answered(r, "getMyCars") =>
      LET u == reqs[r].user
          mine == {c \in Ids :
                     /\ cars[c].isActive
                     /\ \/ cars[c].seller.email = u.email
                        \/ /\ cars[c].seller.email = <<>>
                              \/ cars[c].seller.email = Absent
                           /\ cars[c].seller.name = u.username}
      IN /\ reqs[r].status = 200
         /\ {reqs[r].data[i].id : i \in 1..Len(reqs[r].data)} = mine
         /\ Len(reqs[r].data) = Cardinality(mine)
         /\ \A i \in 1..Len(reqs[r].data) :
              reqs[r].data[i] = cars[reqs[r].data[i].id]

\* an answer holding a listing found by email and one found by seller name,
\* over a store of two active listings
C18_Witness ==
  \E r \in Slots :
    /\ Answered(r, "getMyCars")
    /\ Len(reqs[r].data) = 2
    /\ \E i, j \in 1..2 :
         /\ reqs[r].data[i].seller.email = reqs[r].user.email
         /\ reqs[r].data[j].seller.email \in {<<>>, Absent}
         /\ reqs[r].data[j].status # "available"

-----------------------------------------------------------------------------
(* make and model as persisted and as returned *)

\* first letter upper-case, every later letter lower-case
Normalized(t) ==
  /\ t # <<>> => t[1] = ToUpperCh(t[1])
  /\ \A i \in 2..Len(t) : t[i] = ToLowerCh(t[i])

\* C19: after any sequence of create and update operations the make and the
\* model of every persisted listing have their first letter upper-case and
\* all remaining letters lower-case.
C19_MakeModelNormalized ==
  \A c \in Ids : Normalized(cars[c].make) /\ Normalized(cars[c].model)

\* makes as submitted to POST /api/cars and then searched for
MakeInputs ==
  {<<"M", "a", " ", "S", "u">>, <<"K", "i", "a">>, <<"H", "o", "n", "d", "a">>}

\* stores a create can follow: the earlier listings
EarlierStores ==
  {<<>>, <<SeedCar>>} \cup
  {<<[p EXCEPT !.id = 1]>> : p \in Pool}

InitMake ==
  /\ cars \in EarlierStores
  /\ reqs = [r \in 1..MaxReqs |-> IdleReq]
  /\ AuthIdle

\* a create, then a search for the make the create submitted
NextMake ==
  \/ \E u \in Identities, m \in MakeInputs, y \in {2019, 2020} :
       CreateCar(1, u, [BodyKia EXCEPT !.make = m, !.year = y])
  \/ /\ Answered(1, "createCar") /\ reqs[1].status = 201
     /\ GetCarsFind(2, [QueryAll EXCEPT !.make = reqs[1].body.make])
  \/ GetCarsCount(2)

SpecMake == InitMake /\ [][NextMake]_vars

\* C20: when a listing created with make M is returned by a search with
\* make = M, every other listing the search returns is of that make too,
\* and the make of the created listing in the answer is M as submitted.
C20_MakeRoundTrip ==
  (/\ Answered(1, "createCar") /\ reqs[1].status = 201
   /\ Answered(2, "getCars") /\ reqs[2].status = 200) =>
    LET M == reqs[1].body.make
        new == reqs[1].data.id
        data == reqs[2].data
    IN \A i \in 1..Len(data) :
         data[i].id = new =>
           /\ data[i].make = M
           /\ \A j \in 1..Len(data) : ToLower(data[j].make) = ToLower(M)

-----------------------------------------------------------------------------
(* Fields no request body can set *)

\* C21: the persisted viewCount of a listing starts at 0 and no step of a
\* create, update (whatever its body), soft delete, getCar, search or stats
\* request lowers it.
C21_ViewCountMonotone ==
  [][/\ \A c \in 1..Len(cars) :
          c \in 1..Len(cars') /\ cars'[c].viewCount >= cars[c].viewCount
     /\ \A c \in 1..Len(cars') :
          c \notin 1..Len(cars) => cars'[c].viewCount = 0]_vars

\* an update was applied to a listing that had been viewed, and the
\* listing it returned still carries the view
C21_Witness ==
  \E r \in Slots :
    /\ Answered(r, "updateCar") /\ reqs[r].status = 200
    /\ reqs[r].data.viewCount = 1
    /\ cars[reqs[r].id].viewCount = 1
    /\ reqs[r].data.make = BodyExtraKeys.make

-----------------------------------------------------------------------------
(* POST /api/cars: authenticate, validateRequest, createCar *)

\* variant: the payload is validated before the token is looked at
PostChainValidateFirst == <<"validateRequest", "authenticate", "createCar">>

\* router.post('/', authenticate, validateRequest(carValidationSchema), createCar)
PostChain == <<"authenticate", "validateRequest", "createCar">>

PostHeaders ==
  {NoHeader, <<Bearer, Sp, Word("abc")>>}
  \cup {<<Bearer, Sp, Jwt(t)>> : t \in IssuedTokens}

\* a POST /api/cars request arrives
ArrivePost(header, raw) ==
  /\ areq.stage = "none"
  /\ areq' = [stage |-> "mw", header |-> header, chain |-> PostChain,
              roles |-> {}, raw |-> raw, body |-> raw,
              user |-> NoUser, status |-> 0, message |-> "", handled |-> 0,
              log |-> <<>>]
  /\ UNCHANGED <<cars, reqs, now, issued, users>>

\* validateRequest(carValidationSchema) as a middleware of the chain: the
\* 400, or req.body = value and next()
ValidateRequest ==
  /\ areq.stage = "mw" /\ areq.chain # <<>> /\ Head(areq.chain) = "validateRequest"
  /\ LET v == JoiCar(areq.body)
     IN areq' = IF v.ok
                THEN [areq EXCEPT !.chain = Tail(@), !.body = v.value,
                        !.log = Append(@, [mw |-> "validateRequest", at |-> now,
                                           before |-> areq.user,
                                           out |-> [next |-> 1, status |-> 0]])]
                ELSE [areq EXCEPT !.chain = Tail(@), !.stage = "done",
                        !.status = 400, !.message = "Validation error",
                        !.log = Append(@, [mw |-> "validateRequest", at |-> now,
                                           before |-> areq.user,
                                           out |-> [next |-> 0, status |-> 400]])]
  /\ UNCHANGED <<cars, reqs, now, issued, users>>

\* createCar at the end of the chain, with the req.user and req.body the
\* middleware left
PostCreateCar ==
  /\ areq.stage = "mw" /\ areq.chain = <<"createCar">>
  /\ Idle(1)
  /\ JoiCar(areq.body).ok
  /\ Len(cars) < MaxCars
  /\ LET carData == CarData(areq.body, areq.user)
         doc == NewCar(carData, Len(cars) + 1)
     IN IF CarValid(CastCar(carData))
        THEN /\ cars' = Append(cars, doc)
             /\ reqs' = [reqs EXCEPT ![1] =
                  [op |-> "createCar", pc |-> "done", user |-> areq.user,
                   gone |-> Gone, body |-> areq.body, status |-> 201,
                   data |-> doc]]
             /\ areq' = [areq EXCEPT !.chain = <<>>, !.stage = "done",
                                     !.status = 201, !.handled = 1]
        ELSE /\ cars' = cars
             /\ reqs' = [reqs EXCEPT ![1] =
                  [op |-> "createCar", pc |-> "done", user |-> areq.user,
                   gone |-> Gone, body |-> areq.body, status |-> NextError,
                   data |-> NoDoc]]
             /\ areq' = [areq EXCEPT !.chain = <<>>, !.stage = "done",
                                     !.status = NextError, !.handled = 1]
  /\ UNCHANGED <<now, issued, users>>

PostClock == {AccessSpan}

InitPost ==
  /\ cars = <<SeedCar>>
  /\ reqs = [r \in 1..MaxReqs |-> IdleReq]
  /\ now = 0
  /\ issued = {}
  /\ users = UserStore
  /\ areq = NoAuthReq

NextPost ==
  \/ \E t \in PostClock : Tick(t)
  \/ \E u \in TokenHolders : IssueTokens(u)
  \/ \E h \in PostHeaders, raw \in Bodies : ArrivePost(h, raw)
  \/ \E ok \in BOOLEAN : Authenticate(ok)
  \/ ValidateRequest
  \/ PostCreateCar

SpecPost == InitPost /\ [][NextPost]_vars

\* the request carried a token that verifies now and names an active user
ValidToken(header) ==
  LET token == ExtractTokenFromHeader(header)
  IN IF Falsy(token) THEN FALSE
     ELSE LET v == VerifyToken(token)
          IN IF v.ok THEN LET u == FindUser(v.decoded.id)
                          IN u.id > 0 /\ u.isActive
             ELSE FALSE

PostAnswered == areq.stage = "done"

\* the user lookup of authenticate returned (it did not throw)
StoreAnswered == \A e \in Runs("authenticate") : e.out.found # LookupFailed

\* C22: a POST /api/cars request that carries no valid token is answered 401,
\* one that carries a valid token and a payload the listing schema rejects
\* is answered 400 (401 when the user lookup itself failed), and in both
\* cases the stored listings are what they were; a listing is added only by a request that passed both.
C22_PostGate ==
  /\ PostAnswered /\ ~ValidToken(areq.header) =>
        areq.status = 401 /\ cars = <<SeedCar>> /\ areq.handled = 0
  /\ PostAnswered /\ ValidToken(areq.header) /\ ~JoiCar(areq.raw).ok =>
        /\ areq.status = IF StoreAnswered THEN 400 ELSE 401
        /\ cars = <<SeedCar>> /\ areq.handled = 0
  /\ cars # <<SeedCar>> =>
        /\ PostAnswered /\ areq.status = 201
        /\ ValidToken(areq.header) /\ JoiCar(areq.raw).ok
        /\ SubSeq(cars, 1, 1) = <<SeedCar>>

\* a signed-in caller's payload without a make was answered 400
C22_Witness ==
  /\ PostAnswered /\ ValidToken(areq.header)
  /\ areq.raw = BodyNoMake /\ areq.status = 400
  /\ cars = <<SeedCar>>

\* a valid payload under an expired token was answered 401
C22_WitnessNoToken ==
  /\ PostAnswered /\ ~ValidToken(areq.header) /\ areq.header # NoHeader
  /\ JoiCar(areq.raw).ok /\ areq.status = 401
  /\ \E e \in Runs("authenticate") : e.out.message = MsgExpired

-----------------------------------------------------------------------------
(* POST /api/auth/register: validateRequest(userRegistrationSchema), register *)

UsernameMinLen == 3

\* userRegistrationSchema: username trimmed, at least 3 of [a-zA-Z0-9_];
\* email trimmed, lower-cased, an address
JoiRegister(raw) ==
  LET username == Trim(raw.username)
      email == ToLower(Trim(raw.email))
  IN [ok |-> /\ Len(username) >= UsernameMinLen
             /\ \A i \in 1..Len(username) : username[i] \in WordChars
             /\ JoiEmail(email),
      value |-> [username |-> username, email |-> email]]

\* User.findOne({ $or: [{ email }, { username }] })
FindOneUser(email, username) ==
  LET hits == {i \in DOMAIN users :
                 users[i].email = email \/ users[i].username = username}
  IN IF hits = {} THEN NoUser
     ELSE users[CHOOSE i \in hits : \A j \in hits : i <= j]

\* variant: the users collection has no unique index
DuplicateKeyNever(doc) == FALSE

\* the unique indexes on email and on username refuse the insert (E11000)
DuplicateKey(doc) ==
  \E i \in DOMAIN users :
    users[i].email = doc.email \/ users[i].username = doc.username

\* the document User.create inserts: lower-case email, role user, active
NewUser(body, id) ==
  [id |-> id, username |-> body.username, email |-> ToLower(body.email),
   role |-> "user", isActive |-> TRUE]

MsgEmailTaken == "Email already registered"
MsgUsernameTaken == "Username already taken"

\* the body fails userRegistrationSchema: 400 before register runs
RegisterReject(r, raw) ==
  /\ Idle(r)
  /\ ~JoiRegister(raw).ok
  /\ reqs' = [reqs EXCEPT ![r] =
       [op |-> "register", pc |-> "done", raw |-> raw, status |-> 400,
        message |-> "Validation error", data |-> NoUser]]
  /\ UNCHANGED <<cars, now, issued, users, areq>>

\* register up to the answer of findOne
RegisterFind(r, raw) ==
  /\ Idle(r)
  /\ JoiRegister(raw).ok
  /\ LET body == JoiRegister(raw).value
         existingUser == FindOneUser(body.email, body.username)
     IN reqs' = [reqs EXCEPT ![r] =
          IF existingUser # NoUser
          THEN [op |-> "register", pc |-> "done", raw |-> raw, status |-> 400,
                message |-> IF existingUser.email = body.email
                            THEN MsgEmailTaken ELSE MsgUsernameTaken,
                data |-> NoUser]
          ELSE [op |-> "register", pc |-> "create", raw |-> raw,
                body |-> body]]
  /\ UNCHANGED <<cars, now, issued, users, areq>>

\* register from User.create on: the insert, the tokens and the 201, or the
\* store's error handed to next()
RegisterCreate(r) ==
  /\ reqs[r].op = "register" /\ reqs[r].pc = "create"
  /\ LET user == NewUser(reqs[r].body, Len(users) + 1)
     IN IF DuplicateKey(user)
        THEN /\ reqs' = [reqs EXCEPT ![r] =
                  [op |-> "register", pc |-> "done", raw |-> reqs[r].raw,
                   status |-> NextError, message |-> "E11000",
                   data |-> NoUser]]
             /\ UNCHANGED <<users, issued>>
        ELSE /\ users' = Append(users, user)
             /\ issued' = issued \cup {GenerateTokens(user)}
             /\ reqs' = [reqs EXCEPT ![r] =
                  [op |-> "register", pc |-> "done", raw |-> reqs[r].raw,
                   status |-> 201, message |-> "User registered successfully",
                   data |-> user]]
  /\ UNCHANGED <<cars, now, areq>>

RegisterBodies ==
  [username : {Ann.username, Bob.username, <<"b", "o">>},
   email : {EmailAnn, EmailBob, EmailBobMixed}]

InitRegister ==
  /\ cars = <<>>
  /\ reqs = [r \in 1..MaxReqs |-> IdleReq]
  /\ now = 0
  /\ issued = {}
  /\ users = <<Ann>>
  /\ areq = NoAuthReq

NextRegister ==
  \/ \E r \in Slots, raw \in RegisterBodies : RegisterReject(r, raw)
  \/ \E r \in Slots, raw \in RegisterBodies : RegisterFind(r, raw)
  \/ \E r \in Slots : RegisterCreate(r)

SpecRegister == InitRegister /\ [][NextRegister]_vars

Registered ==
  {r \in Slots : Answered(r, "register") /\ reqs[r].status = 201}

\* C23: under every interleaving of register requests no two stored users
\* share an email or a username, and every stored user beyond the initial
\* ones was created by exactly one request answered 201: a request whose
\* email or username was taken when it reached the store created nothing.
C23_UniqueUsers ==
  /\ \A i, j \in DOMAIN users :
        i # j => /\ users[i].email # users[j].email
                 /\ users[i].username # users[j].username
  /\ \A r \in Registered :
        /\ reqs[r].data.id \in DOMAIN users
        /\ users[reqs[r].data.id] = reqs[r].data
  /\ \A r1, r2 \in Registered : r1 # r2 => reqs[r1].data.id # reqs[r2].data.id
  /\ Len(users) = Len(<<Ann>>) + Cardinality(Registered)

\* two requests for one email both passed findOne; the index refused the
\* second insert
C23_Witness ==
  \E r1, r2 \in Slots :
    /\ Answered(r1, "register") /\ reqs[r1].status = 201
    /\ Answered(r2, "register") /\ reqs[r2].status = NextError
    /\ JoiRegister(reqs[r2].raw).value.email = reqs[r1].data.email
    /\ users = <<Ann, reqs[r1].data>>

-----------------------------------------------------------------------------
(* extractTokenFromHeader on the headers requests carry *)

SpaceFree(text) == \A i \in 1..Len(text) : text[i] # Sp

\* the header is the word Bearer, one space and the space-free rest
BearerRest(header) ==
  IF header # NoHeader /\ Len(header) >= 2
  THEN IF header[1] = Bearer /\ header[2] = Sp
          /\ SpaceFree(SubSeq(header, 3, Len(header)))
       THEN SubSeq(header, 3, Len(header))
       ELSE Null
  ELSE Null

HeaderSeen == areq.stage # "none"

\* C24 as stated: the token comes back exactly for Bearer, one space and a
\* non-empty space-free token, and null comes back for every other header.
C24_ExtractAsStated ==
  HeaderSeen =>
    LET rest == BearerRest(areq.header)
    IN ExtractTokenFromHeader(areq.header) =
         IF rest # Null /\ rest # <<>> THEN rest ELSE Null

\* C24: extractTokenFromHeader returns what follows 'Bearer ' when the header
\* is the word Bearer, one space and a space-free rest, the empty string
\* when that rest is empty, and null for every other header (absent, empty,
\* one part, three or more parts, another scheme word).
C24_Extract ==
  HeaderSeen =>
    /\ ExtractTokenFromHeader(areq.header) = BearerRest(areq.header)
    /\ \A e \in Runs("authenticate") :
          e.out.message = MsgNoToken <=>
            BearerRest(areq.header) \in {Null, <<>>}

\* 'Bearer ' reached authenticate: '' was extracted and answered as no token
C24_Witness ==
  /\ HeaderSeen /\ areq.header = <<Bearer, Sp>>
  /\ ExtractTokenFromHeader(areq.header) = <<>>
  /\ \E e \in Runs("authenticate") : e.out.message = MsgNoToken

-----------------------------------------------------------------------------
(* Year bounds of getCars *)

\* C25: every year bound present in an admitted query is applied as an
\* inclusive bound to the listings getCars returns, and with both bounds
\* absent the year of a listing does not decide whether it is returned.
C25_YearBoundsInclusive ==
  \A r \in Slots :
    (Answered(r, "getCars") /\ reqs[r].status = 200) =>
      LET q == reqs[r].query
      IN /\ \A i \in 1..Len(reqs[r].data) :
              /\ q.minYear # AbsentNum => q.minYear <= reqs[r].data[i].year
              /\ q.maxYear # AbsentNum => reqs[r].data[i].year <= q.maxYear
         /\ (q.minYear = AbsentNum /\ q.maxYear = AbsentNum) =>
              \A c \in Ids : YearFilter(q, cars[c])

-----------------------------------------------------------------------------
(* Soft deletion is final *)

\* C26: a listing whose isActive is false stays in the store with isActive
\* false across every step of every operation (create, update with any body,
\* soft delete, getCar, search).
C26_InactiveStaysInactive ==
  [][\A c \in 1..Len(cars) :
       ~cars[c].isActive => c \in 1..Len(cars') /\ ~cars'[c].isActive]_vars

\* a PUT of the kia body, which BodyExtraKeys submits with isActive: true,
\* was applied to a soft-deleted listing and left it inactive
C26_Witness ==
  \E r \in Slots :
    /\ Answered(r, "updateCar") /\ reqs[r].status = 200
    /\ reqs[r].id \in reqs[r].gone
    /\ reqs[r].data.make = BodyExtraKeys.make
    /\ ~reqs[r].data.isActive
    /\ ~cars[reqs[r].id].isActive

-----------------------------------------------------------------------------
(* getCar racing deleteCar *)

\* C27: no step changes the viewCount of a listing whose isActive is false,
\* under every interleaving of the steps of getCar and deleteCar requests.
C27_NoViewsWhileInactive ==
  [][\A c \in 1..Len(cars) :
       ~cars[c].isActive =>
         c \in 1..Len(cars') /\ cars'[c].viewCount = cars[c].viewCount]_vars

-----------------------------------------------------------------------------
(* Seller attribution across updates *)

\* C28: a listing created by user U keeps seller.email equal to U's email
\* whatever updateCar calls follow, so it stays among U's listings
\* (MineFilter) while it is active and never among another user's.
C28_SellerStable ==
  \A r \in Slots :
    (Answered(r, "createCar") /\ reqs[r].status = 201) =>
      LET d == cars[reqs[r].data.id]
      IN /\ d.seller.email = reqs[r].user.email
         /\ \A u \in Editors : MineFilter(u, d) <=>
                                  (u = reqs[r].user /\ d.isActive)

-----------------------------------------------------------------------------
(* Which token of a pair authenticates *)

\* C29: authenticate calls next() only for the access token of an issued
\* pair, never for its refresh token, so no issued token authenticates a
\* request later than 15 minutes after it was issued.
C29_OnlyAccessTokens ==
  \A e \in Runs("authenticate") :
    e.out.next = 1 =>
      \A t \in Presented :
        /\ t \in AccessTokens
        /\ e.at <= t.iat + AccessSpan

-----------------------------------------------------------------------------
(* getCars racing writes *)

\* C30: in every getCars response the number of returned listings is at
\* most max(0, total - (page - 1) * limit), whatever create, update and
\* soft-delete steps ran between the page query and the count query.
C30_PageWithinTotal ==
  \A r \in Slots :
    (Answered(r, "getCars") /\ reqs[r].status = 200) =>
      LET p == reqs[r].pagination
          room == p.total - (p.page - 1) * p.limit
      IN Len(reqs[r].data) <= IF room > 0 THEN room ELSE 0

====
